---- MODULE Spec2Model ----
(***************************************************************************)
(* Model of src/ms.py: ExchangeLatencyTester (test_rest_latency,           *)
(* run_tests, print_results, save_results_to_file) and main.               *)
(*                                                                         *)
(* Python values whose type varies at run time (latency: float or str,     *)
(* status_code: int or None, filename: str or None) are tagged records.    *)
(* A dict that is iterated is a sequence of <<key, value>> pairs in        *)
(* insertion order; a ProbeResult dict is a function from its keys.        *)
(***************************************************************************)
EXTENDS Integers, Sequences, FiniteSets, TLC

VARIABLES driver, pc, raised, self_results, prev_results, results, returned,
          idx, start_time, ret, outcome, events, log, stdout, stderr, fs,
          filename, serializable_results

vars == <<driver, pc, raised, self_results, prev_results, results, returned,
          idx, start_time, ret, outcome, events, log, stdout, stderr, fs,
          filename, serializable_results>>

\* ---------------------------------------------------------------- bounds
\* Largest reading of time.perf_counter(), in seconds.
MaxClock == 1

\* ------------------------------------------------------- input alphabets
\* HTTP statuses a server may answer with.
Statuses == {200, 503}
\* str(e) of the requests.exceptions.RequestException that may be raised.
RequestErrors == {"Read timed out."}
\* datetime.now().strftime("%Y%m%d_%H%M%S") readings.
Timestamps == {"20240101_120000", "20240101_120001"}
\* datetime.now().isoformat() readings.
IsoTimes == {"2024-01-01T12:00:00"}
\* Filenames a caller may pass explicitly.
ExplicitNames == {"out.json"}

\* ---------------------------------------------------------- Python values
PyNone == [type |-> "NoneType"]
PyInt(n) == [type |-> "int", val |-> n]
PyStr(s) == [type |-> "str", val |-> s]
PyFloat(x) == [type |-> "float", inf |-> FALSE, val |-> x]
\* float('inf')
PyInf == [type |-> "float", inf |-> TRUE]

\* str(v) as an f-string field renders it.
PyFormat(v) ==
    IF v.type = "NoneType" THEN "None"
    ELSE IF v.type = "int" THEN ToString(v.val)
    ELSE IF v.type = "str" THEN v.val
    ELSE IF v.inf THEN "inf" ELSE ToString(v.val) \o ".0"

\* f"{v:.2f}" of a float (finite values of the model are whole numbers).
Format2f(v) == IF v.inf THEN "inf" ELSE ToString(v.val) \o ".00"

RECURSIVE Repeat(_, _)
\* s * n
Repeat(s, n) == IF n = 0 THEN "" ELSE s \o Repeat(s, n - 1)

\* ------------------------------------------------------------------ dicts
RECURSIVE DictFind(_, _, _)
\* Position of key k in dict d at or after position i, 0 when missing.
DictFind(d, k, i) ==
    IF i > Len(d) THEN 0
    ELSE IF d[i][1] = k THEN i ELSE DictFind(d, k, i + 1)

\* Variant: the assignment rebinds the dict to a one-entry dict.
DictSetOverwrite(d, k, v) == << <<k, v>> >>

\* d[k] = v : replaces in place, or appends a new key.
DictSet(d, k, v) ==
    LET p == DictFind(d, k, 1)
    IN IF p = 0 THEN Append(d, <<k, v>>) ELSE [d EXCEPT ![p] = <<k, v>>]

DictKeys(d) == [i \in 1..Len(d) |-> d[i][1]]
DictHas(d, k) == DictFind(d, k, 1) # 0

\* ---------------------------------------------------------- configuration
ExchangeList == <<"binance", "bybit", "gateio">>

endpoints ==
    [e \in {"binance", "bybit", "gateio"} |->
        CASE e = "binance" -> "https://api.binance.com/api/v3/time"
          [] e = "bybit" -> "https://api.bybit.com/v5/market/time"
          [] e = "gateio" -> "https://api.gateio.ws/api/v4/spot/time"]

\* str.upper() on the exchange identifiers.
Upper(e) ==
    CASE e = "binance" -> "BINANCE"
      [] e = "bybit" -> "BYBIT"
      [] e = "gateio" -> "GATEIO"

\* Seconds time.sleep() pauses after each exchange.
PauseSeconds == 1

LogRec(level, msg) == [level |-> level, msg |-> msg]

\* ------------------------------------------------------ test_rest_latency
\* (end_time - start_time) * 1000
Latency(start, end) == PyFloat((end - start) * 1000)

SuccessResult(exchange, latency, status) ==
    [exchange |-> exchange, test_type |-> "rest", latency |-> latency,
     status_code |-> PyInt(status), success |-> TRUE]

\* Variant: the non-200 branch reports a measured latency of zero.
HttpErrorResultNoSentinel(exchange, status) ==
    [exchange |-> exchange, test_type |-> "rest", latency |-> PyFloat(0),
     status_code |-> PyInt(status), success |-> FALSE]

HttpErrorResult(exchange, status) ==
    [exchange |-> exchange, test_type |-> "rest", latency |-> PyInf,
     status_code |-> PyInt(status), success |-> FALSE]

\* Variant: the except branch leaves out the error field.
TransportErrorResultNoError(exchange, e) ==
    [exchange |-> exchange, test_type |-> "rest", latency |-> PyInf,
     status_code |-> PyNone, success |-> FALSE]

TransportErrorResult(exchange, e) ==
    [exchange |-> exchange, test_type |-> "rest", latency |-> PyInf,
     status_code |-> PyNone, success |-> FALSE, error |-> e]

\* Result built from a response with the given status.
ResponseResult(exchange, status, start, end) ==
    IF status = 200
    THEN SuccessResult(exchange, Latency(start, end), status)
    ELSE HttpErrorResult(exchange, status)

ResponseLog(status, start, end) ==
    IF status = 200
    THEN LogRec("INFO", "Request: " \o Format2f(Latency(start, end))
                        \o " ms (Status: " \o ToString(status) \o ")")
    ELSE LogRec("WARNING", "Request failed with status code "
                           \o ToString(status))

\* ------------------------------------------------------------- exceptions
\* issubclass(exc, cls) for the exception classes that occur.
Subclass(exc, cls) ==
    CASE cls = "BaseException" -> TRUE
      [] cls = "Exception" -> exc \in {"Exception", "OSError",
                                       "RequestException"}
      [] OTHER -> exc = cls

\* except requests.exceptions.RequestException in test_rest_latency
ProbeCatches(exc) == Subclass(exc, "RequestException")
\* except Exception in save_results_to_file
SaveCatches(exc) == Subclass(exc, "Exception")
\* Variant: main without its except KeyboardInterrupt clause.
MainClausesNoInterrupt == <<"Exception">>

\* The except clauses of main, in order.
MainClauses == <<"KeyboardInterrupt", "Exception">>
MainCatches(exc) ==
    \E i \in 1..Len(MainClauses) : Subclass(exc, MainClauses[i])

\* What the network did to the request in flight.
NoOutcome == [kind |-> "none"]
Responded(status) == [kind |-> "response", status |-> status]
Failed(exc, e) == [kind |-> "raise", exc |-> exc, error |-> e]

\* Variant: the emptiness test is left out.
FalsyNever(d) == FALSE

\* not d
Falsy(d) == d = <<>>

\* ------------------------------------------------------ control locations
RunPcs == {"run_loop", "probe_start", "request", "store", "sleep",
           "run_return"}
PrintPcs == {"print_enter", "print_loop"}
SavePcs == {"save_enter", "save_convert", "save_open", "save_dump",
            "save_log"}
\* Locations inside the try block of save_results_to_file.
SaveTry == {"save_convert", "save_open", "save_dump", "save_log"}
\* Locations inside a method call, where an exception can be raised.
InCall == RunPcs \cup PrintPcs \cup SavePcs

\* Where control goes when a method returns normally.
AfterRun == IF driver = "main" THEN "main_print" ELSE "idle"
AfterPrint == IF driver = "main" THEN "main_save" ELSE "idle"
AfterSave == IF driver = "main" THEN "main_exit" ELSE "idle"
\* Where an exception leaving a method lands.
Handler == IF driver = "main" THEN "main_except" ELSE "client_except"

DefaultName(ts) == "latency_test_results_" \o ts \o ".json"
FileNames == ExplicitNames \cup {DefaultName(ts) : ts \in Timestamps}
Absent == [st |-> "absent"]
NoFiles == [n \in FileNames |-> Absent]

Init ==
    /\ driver \in {"main", "client"}
    /\ pc = IF driver = "main" THEN "main_start" ELSE "idle"
    /\ raised = "none"
    /\ self_results = <<>>
    /\ prev_results = <<>>
    /\ results = <<>>
    /\ returned = <<>>
    /\ idx = 1
    /\ start_time = 0
    /\ ret = <<>>
    /\ outcome = NoOutcome
    /\ events = <<>>
    /\ log = <<>>
    /\ stdout = <<>>
    /\ stderr = <<>>
    /\ fs = NoFiles
    /\ filename = PyNone
    /\ serializable_results = <<>>

\* A client clears what it has observed before its next call; main makes
\* its three calls in one process, so nothing is cleared there.
Observed(old, fresh) == IF driver = "client" THEN fresh ELSE old

\* Entering a method: a new frame whose locals are not yet bound, the
\* stored results as they are at entry, and the caller's observations.
Enter(entry, firstLog) ==
    /\ pc' = entry
    /\ raised' = "none"
    /\ prev_results' = self_results
    /\ results' = <<>>
    /\ idx' = 1
    /\ start_time' = 0
    /\ ret' = <<>>
    /\ outcome' = NoOutcome
    /\ serializable_results' = <<>>
    /\ returned' = Observed(returned, <<>>)
    /\ events' = Observed(events, <<>>)
    /\ log' = Observed(log, <<>>) \o firstLog
    /\ stdout' = Observed(stdout, <<>>)
    /\ stderr' = Observed(stderr, <<>>)
    /\ fs' = Observed(fs, NoFiles)
    /\ UNCHANGED <<driver, self_results>>

\* ---------------------------------------------------------------- run_tests
CallRun ==
    /\ pc \in {"main_start", "idle"}
    /\ Enter("run_loop", <<LogRec("INFO", "Starting latency tests...")>>)
    /\ filename' = PyNone

\* Loop head with exchanges left: the banner, then test_rest_latency's
\* first log line.
RunLoopHead ==
    /\ pc = "run_loop"
    /\ idx <= Len(ExchangeList)
    /\ LET exchange == ExchangeList[idx]
       IN log' = log \o
            << LogRec("INFO", "\n" \o Repeat("=", 50)),
               LogRec("INFO", "Testing " \o Upper(exchange)),
               LogRec("INFO", Repeat("=", 50)),
               LogRec("INFO", "Testing REST latency for "
                              \o Upper(exchange)) >>
    /\ pc' = "probe_start"
    /\ UNCHANGED <<driver, raised, self_results, prev_results, results,
                   returned, idx, start_time, ret, outcome, events, stdout,
                   stderr, fs, filename, serializable_results>>

\* start_time is read and the GET is sent.
ProbeSend ==
    /\ pc = "probe_start"
    /\ \E t \in 0..MaxClock : start_time' = t
    /\ events' = Append(events, <<"GET", endpoints[ExchangeList[idx]]>>)
    /\ pc' = "request"
    /\ UNCHANGED <<driver, outcome, raised, self_results, prev_results,
                   results, returned, idx, ret, log, stdout, stderr, fs,
                   filename, serializable_results>>

\* A response arrives; the clock is monotonic.
ProbeResponse ==
    /\ pc = "request"
    /\ \E status \in Statuses, end_time \in start_time..MaxClock :
         /\ ret' = <<ResponseResult(ExchangeList[idx], status,
                                    start_time, end_time)>>
         /\ outcome' = Responded(status)
         /\ log' = Append(log, ResponseLog(status, start_time, end_time))
    /\ pc' = "store"
    /\ UNCHANGED <<driver, raised, self_results, prev_results, results,
                   returned, idx, start_time, events, stdout, stderr, fs,
                   filename, serializable_results>>

\* Variant: a RequestException makes the probe send the request again.
ProbeTransportErrorRetry ==
    /\ pc = "request"
    /\ ProbeCatches("RequestException")
    /\ \E e \in RequestErrors :
         /\ outcome' = Failed("RequestException", e)
         /\ log' = Append(log, LogRec("ERROR", "Request error: " \o e))
    /\ pc' = "probe_start"
    /\ UNCHANGED <<driver, raised, self_results, prev_results, results,
                   returned, idx, start_time, ret, events, stdout, stderr, fs,
                   filename, serializable_results>>

\* requests.get raises a RequestException.
ProbeTransportError ==
    /\ pc = "request"
    /\ ProbeCatches("RequestException")
    /\ \E e \in RequestErrors :
         /\ ret' = <<TransportErrorResult(ExchangeList[idx], e)>>
         /\ outcome' = Failed("RequestException", e)
         /\ log' = Append(log, LogRec("ERROR", "Request error: " \o e))
    /\ pc' = "store"
    /\ UNCHANGED <<driver, raised, self_results, prev_results, results,
                   returned, idx, start_time, events, stdout, stderr, fs,
                   filename, serializable_results>>

\* requests.get raises something that is not a RequestException: it is not
\* caught in test_rest_latency nor in run_tests.
ProbeUnexpected ==
    /\ pc = "request"
    /\ ~ProbeCatches("Exception")
    /\ outcome' = Failed("Exception", "unexpected")
    /\ raised' = "Exception"
    /\ pc' = Handler
    /\ UNCHANGED <<driver, self_results, prev_results, results, returned, idx,
                   start_time, ret, events, log, stdout, stderr, fs, filename,
                   serializable_results>>

\* Variant: each result is assigned into self.results as soon as it is there.
RunStoreDirect ==
    /\ pc = "store"
    /\ results' = DictSet(results, ExchangeList[idx], ret[1])
    /\ self_results' = DictSet(self_results, ExchangeList[idx], ret[1])
    /\ events' = Append(events, <<"store", ExchangeList[idx]>>)
    /\ ret' = <<>>
    /\ pc' = "sleep"
    /\ UNCHANGED <<driver, outcome, raised, prev_results, returned, idx,
                   start_time, log, stdout, stderr, fs, filename,
                   serializable_results>>

\* results[exchange] = result
RunStore ==
    /\ pc = "store"
    /\ results' = DictSet(results, ExchangeList[idx], ret[1])
    /\ events' = Append(events, <<"store", ExchangeList[idx]>>)
    /\ ret' = <<>>
    /\ pc' = "sleep"
    /\ UNCHANGED <<driver, outcome, raised, self_results, prev_results,
                   returned, idx, start_time, log, stdout, stderr, fs,
                   filename, serializable_results>>

\* time.sleep(1) runs to its end; the loop advances.
RunSleep ==
    /\ pc = "sleep"
    /\ events' = Append(events, <<"pause", PauseSeconds>>)
    /\ idx' = idx + 1
    /\ pc' = "run_loop"
    /\ UNCHANGED <<driver, outcome, raised, self_results, prev_results,
                   results, returned, start_time, ret, log, stdout, stderr,
                   fs, filename, serializable_results>>

\* Loop exhausted: self.results = results
RunPublish ==
    /\ pc = "run_loop"
    /\ idx > Len(ExchangeList)
    /\ self_results' = results
    /\ pc' = "run_return"
    /\ UNCHANGED <<driver, outcome, raised, prev_results, results, returned,
                   idx, start_time, ret, events, log, stdout, stderr, fs,
                   filename, serializable_results>>

\* return results
RunReturn ==
    /\ pc = "run_return"
    /\ returned' = results
    /\ pc' = AfterRun
    /\ UNCHANGED <<driver, raised, self_results, prev_results, results, idx,
                   start_time, ret, outcome, events, log, stdout, stderr, fs,
                   filename, serializable_results>>

\* ------------------------------------------------------------ print_results
\* result.get(key, default)
ResultGet(result, key, default) ==
    IF key \in DOMAIN result THEN result[key] ELSE default

\* The print() calls made for one entry of self.results.items().
Block(exchange, result) ==
    << "\n" \o Upper(exchange) \o " Results:" >> \o
    IF result["success"]
    THEN << "  Latency: " \o Format2f(result["latency"]) \o " ms",
            "  Status Code: " \o PyFormat(result["status_code"]) >>
    ELSE << "  Request failed" >> \o
         (IF "error" \in DOMAIN result
          THEN << "  Error: " \o result["error"] >> ELSE << >>) \o
         << "  Status Code: "
            \o PyFormat(ResultGet(result, "status_code", PyStr("N/A"))) >>

ReportHeader ==
    << "\n" \o Repeat("=", 80), "LATENCY TEST RESULTS SUMMARY",
       Repeat("=", 80) >>

CallPrint ==
    /\ pc \in {"main_print", "idle"}
    /\ Enter("print_enter", <<>>)
    /\ filename' = PyNone

\* if not self.results: warn and return
PrintEmpty ==
    /\ pc = "print_enter"
    /\ Falsy(self_results)
    /\ log' = Append(log, LogRec("WARNING",
                                 "No results to display. Run tests first."))
    /\ pc' = AfterPrint
    /\ UNCHANGED <<driver, raised, self_results, prev_results, results,
                   returned, idx, start_time, ret, outcome, events, stdout,
                   stderr, fs, filename, serializable_results>>

PrintHeader ==
    /\ pc = "print_enter"
    /\ ~Falsy(self_results)
    /\ stdout' = stdout \o ReportHeader
    /\ idx' = 1
    /\ pc' = "print_loop"
    /\ UNCHANGED <<driver, outcome, raised, self_results, prev_results,
                   results, returned, start_time, ret, events, log, stderr,
                   fs, filename, serializable_results>>

\* One iteration of for exchange, result in self.results.items()
PrintBlock ==
    /\ pc = "print_loop"
    /\ idx <= Len(self_results)
    /\ stdout' = stdout \o Block(self_results[idx][1], self_results[idx][2])
    /\ idx' = idx + 1
    /\ UNCHANGED <<driver, outcome, pc, raised, self_results, prev_results,
                   results, returned, start_time, ret, events, log, stderr,
                   fs, filename, serializable_results>>

PrintReturn ==
    /\ pc = "print_loop"
    /\ idx > Len(self_results)
    /\ pc' = AfterPrint
    /\ UNCHANGED <<driver, raised, self_results, prev_results, results,
                   returned, idx, start_time, ret, outcome, events, log,
                   stdout, stderr, fs, filename, serializable_results>>

\* ----------------------------------------------------- save_results_to_file
\* v == float('inf')
EqualsInf(v) == v.type = "float" /\ v.inf

\* Variant: the sentinel is written as it is.
SerializableResultKeepsInf(result) == result

\* The entry put into serializable_results for one result.
SerializableResult(result) ==
    IF "latency" \in DOMAIN result /\ EqualsInf(result["latency"])
    THEN [result EXCEPT !["latency"] = PyStr("inf")]
    ELSE result

\* Variant: no copy is made, the stored dict itself is converted.
OriginalAfterCopyAliased(original, converted) == converted

\* What the dict held by self.results is after its entry was converted:
\* the assignment is made to result.copy(), so the original is untouched.
OriginalAfterCopy(original, converted) == original

\* The object handed to json.dump.
Document(iso, res) == [timestamp |-> iso, results |-> res]

CallSave ==
    /\ \/ pc = "main_save" /\ filename' = PyNone
       \/ pc = "idle" /\ filename' \in {PyNone} \cup
                                        {PyStr(n) : n \in ExplicitNames}
    /\ Enter("save_enter", <<>>)

\* if not self.results: warn and return
SaveEmpty ==
    /\ pc = "save_enter"
    /\ Falsy(self_results)
    /\ log' = Append(log, LogRec("WARNING", "No results to save."))
    /\ pc' = AfterSave
    /\ UNCHANGED <<driver, raised, self_results, prev_results, results,
                   returned, idx, start_time, ret, outcome, events, stdout,
                   stderr, fs, filename, serializable_results>>

\* if filename is None: derive it from the clock; then enter the try block.
SaveName ==
    /\ pc = "save_enter"
    /\ ~Falsy(self_results)
    /\ IF filename = PyNone
       THEN \E ts \in Timestamps : filename' = PyStr(DefaultName(ts))
       ELSE filename' = filename
    /\ serializable_results' = <<>>
    /\ idx' = 1
    /\ pc' = "save_convert"
    /\ UNCHANGED <<driver, outcome, raised, self_results, prev_results,
                   results, returned, start_time, ret, events, log, stdout,
                   stderr, fs>>

\* One iteration of for key, result in self.results.items()
SaveConvert ==
    /\ pc = "save_convert"
    /\ idx <= Len(self_results)
    /\ LET key == self_results[idx][1]
           result == self_results[idx][2]
           serializable_result == SerializableResult(result)
       IN /\ serializable_results' =
                DictSet(serializable_results, key, serializable_result)
          /\ self_results' =
                [self_results EXCEPT ![idx] =
                    <<key, OriginalAfterCopy(result, serializable_result)>>]
    /\ idx' = idx + 1
    /\ UNCHANGED <<driver, outcome, pc, raised, prev_results, results,
                   returned, start_time, ret, events, log, stdout, stderr, fs,
                   filename>>

SaveConvertDone ==
    /\ pc = "save_convert"
    /\ idx > Len(self_results)
    /\ pc' = "save_open"
    /\ UNCHANGED <<driver, raised, self_results, prev_results, results,
                   returned, idx, start_time, ret, outcome, events, log,
                   stdout, stderr, fs, filename, serializable_results>>

\* open(filename, 'w') succeeds: the file exists and is empty.
SaveOpen ==
    /\ pc = "save_open"
    /\ fs' = [fs EXCEPT ![filename.val] = [st |-> "empty"]]
    /\ pc' = "save_dump"
    /\ UNCHANGED <<driver, raised, self_results, prev_results, results,
                   returned, idx, start_time, ret, outcome, events, log,
                   stdout, stderr, filename, serializable_results>>

\* An exception raised inside the try block of save_results_to_file: the
\* except clause logs it and the method returns, or it leaves the method.
SaveFails(exc, e) ==
    IF SaveCatches(exc)
    THEN /\ log' = Append(log, LogRec("ERROR",
                                      "Failed to save results: " \o e))
         /\ raised' = raised
         /\ pc' = AfterSave
    ELSE /\ log' = log
         /\ raised' = exc
         /\ pc' = Handler

\* open raises OSError.
SaveOpenFail ==
    /\ pc = "save_open"
    /\ SaveFails("OSError", "cannot open")
    /\ UNCHANGED <<driver, outcome, self_results, prev_results, results,
                   returned, idx, start_time, ret, events, stdout, stderr, fs,
                   filename, serializable_results>>

\* json.dump writes the whole document and the file is closed.
SaveDump ==
    /\ pc = "save_dump"
    /\ \E iso \in IsoTimes :
         fs' = [fs EXCEPT ![filename.val] =
                   [st |-> "written",
                    data |-> Document(iso, serializable_results)]]
    /\ pc' = "save_log"
    /\ UNCHANGED <<driver, raised, self_results, prev_results, results,
                   returned, idx, start_time, ret, outcome, events, log,
                   stdout, stderr, filename, serializable_results>>

\* A write raises OSError part-way: the file is left truncated or partial.
SaveDumpFail ==
    /\ pc = "save_dump"
    /\ \E st \in {"empty", "partial"} :
         fs' = [fs EXCEPT ![filename.val] = [st |-> st]]
    /\ SaveFails("OSError", "write failed")
    /\ UNCHANGED <<driver, outcome, self_results, prev_results, results,
                   returned, idx, start_time, ret, events, stdout, stderr,
                   filename, serializable_results>>

SaveLog ==
    /\ pc = "save_log"
    /\ log' = Append(log, LogRec("INFO",
                                 "Results saved to " \o filename.val))
    /\ pc' = AfterSave
    /\ UNCHANGED <<driver, raised, self_results, prev_results, results,
                   returned, idx, start_time, ret, outcome, events, stdout,
                   stderr, fs, filename, serializable_results>>

\* ------------------------------------------------------ exceptions and main
\* Locations of main's try block between two calls.
BetweenCalls == {"main_print", "main_save"}

\* KeyboardInterrupt is raised in the running thread.  It is not a
\* RequestException, so test_rest_latency never catches it.  A block being
\* printed or a document being written may be cut short.
Interrupt ==
    /\ \/ pc \in InCall
       \/ driver = "main" /\ pc \in BetweenCalls
    /\ IF pc \in SaveTry
       THEN SaveFails("KeyboardInterrupt", "interrupted")
       ELSE /\ log' = log
            /\ raised' = "KeyboardInterrupt"
            /\ pc' = Handler
    /\ IF pc = "print_loop" /\ idx <= Len(self_results)
       THEN \E n \in 0..2 :
              stdout' = stdout \o
                 SubSeq(Block(self_results[idx][1], self_results[idx][2]),
                        1, n)
       ELSE stdout' = stdout
    /\ IF pc = "save_dump"
       THEN \E st \in {"empty", "partial"} :
              fs' = [fs EXCEPT ![filename.val] = [st |-> st]]
       ELSE fs' = fs
    /\ UNCHANGED <<driver, outcome, self_results, prev_results, results,
                   returned, idx, start_time, ret, events, stderr, filename,
                   serializable_results>>

\* The exception reaches main's try statement: the first matching except
\* clause runs and main returns normally; with no match it leaves main.
MainExcept ==
    /\ pc = "main_except"
    /\ IF ~MainCatches(raised)
       THEN /\ pc' = "main_uncaught"
            /\ UNCHANGED <<log, stderr>>
       ELSE /\ pc' = "main_exit"
            /\ IF Subclass(raised, MainClauses[1])
               THEN /\ log' = Append(log, LogRec("INFO",
                                          "Test interrupted by user"))
                    /\ stderr' = stderr
               ELSE /\ log' = Append(log, LogRec("ERROR",
                                          "Test failed with error: unexpected"))
                    /\ stderr' = Append(stderr,
                                        "Traceback (most recent call last):")
    /\ UNCHANGED <<driver, outcome, raised, self_results, prev_results,
                   results, returned, idx, start_time, ret, events, stdout,
                   fs, filename, serializable_results>>

\* A client that called a method directly receives the exception and may
\* go on using the tester.
ClientExcept ==
    /\ pc = "client_except"
    /\ pc' = "idle"
    /\ UNCHANGED <<driver, raised, self_results, prev_results, results,
                   returned, idx, start_time, ret, outcome, events, log,
                   stdout, stderr, fs, filename, serializable_results>>

Next ==
    \/ CallRun
    \/ RunLoopHead
    \/ ProbeSend
    \/ ProbeResponse
    \/ ProbeTransportError
    \/ ProbeUnexpected
    \/ RunStore
    \/ RunSleep
    \/ RunPublish
    \/ RunReturn
    \/ CallPrint
    \/ PrintEmpty
    \/ PrintHeader
    \/ PrintBlock
    \/ PrintReturn
    \/ CallSave
    \/ SaveEmpty
    \/ SaveName
    \/ SaveConvert
    \/ SaveConvertDone
    \/ SaveOpen
    \/ SaveOpenFail
    \/ SaveDump
    \/ SaveDumpFail
    \/ SaveLog
    \/ Interrupt
    \/ MainExcept
    \/ ClientExcept

Spec == Init /\ [][Next]_vars

\* =================================================================== claims
\* The exchange identifiers in probe order, as the specification lists them.
FixedOrder == <<"binance", "bybit", "gateio">>

FiniteNonNegative(v) == v.type = "float" /\ ~v.inf /\ v.val >= 0
IsSentinel(v) == v = [type |-> "float", inf |-> TRUE]

\* C1: for every ProbeResult test_rest_latency returns, success is true iff
\* status_code is 200 iff latency is finite and non-negative; so every
\* result with success false has the infinity sentinel as latency.
C1_SuccessIff200IffFinite ==
    \A i \in 1..Len(ret) :
        LET r == ret[i]
        IN /\ r["success"] <=> (r["status_code"] = [type |-> "int", val |-> 200])
           /\ r["success"] <=> FiniteNonNegative(r["latency"])
           /\ ~r["success"] => IsSentinel(r["latency"])

\* A transport failure has just been returned, and a non-200 result of an
\* earlier exchange of this run is already held.
C1_Witness ==
    /\ pc = "store"
    /\ outcome.kind = "raise"
    /\ ~ret[1]["success"]
    /\ \E i \in 1..Len(results) :
          /\ ~results[i][2]["success"]
          /\ results[i][2]["status_code"] = [type |-> "int", val |-> 503]

\* C2: when run_tests returns, the returned set and self.results are the
\* same set, built by this run, with exactly the keys binance, bybit, gateio
\* in that order, and each stored result names its own key; whatever was
\* stored before is replaced.
C2_RunReturnsThreeKeys ==
    [][(pc = "run_return" /\ raised' = "none" /\ pc' # "run_return") =>
          /\ returned' = results
          /\ self_results' = returned'
          /\ Len(returned') = 3
          /\ \A i \in 1..Len(returned') :
                /\ returned'[i][1] = FixedOrder[i]
                /\ returned'[i][2]["exchange"] = returned'[i][1]]_vars

\* A second run has returned and every stored entry differs from the one
\* the previous run had stored.
C2_Witness ==
    /\ pc = "idle"
    /\ Len(returned) = 3
    /\ returned = self_results
    /\ Len(prev_results) = 3
    /\ \A i \in 1..3 : prev_results[i] # self_results[i]

\* C3: the error field is present exactly on a transport failure: a non-200
\* response gives success false, the returned status and no error field; a
\* transport failure gives success false, status_code None and error set to
\* the stringified cause; a 200 response gives no error field.
C3_ErrorFieldIffTransport ==
    pc = "store" =>
        LET r == ret[1]
        IN /\ ("error" \in DOMAIN r) <=> (outcome.kind = "raise")
           /\ outcome.kind = "response" /\ outcome.status # 200 =>
                 /\ ~r["success"]
                 /\ r["status_code"] = [type |-> "int", val |-> outcome.status]
           /\ outcome.kind = "raise" =>
                 /\ ~r["success"]
                 /\ r["status_code"] = [type |-> "NoneType"]
                 /\ r["error"] = outcome.error

C3_Witness ==
    /\ pc = "store"
    /\ outcome.kind = "raise"
    /\ outcome.exc = "RequestException"
    /\ ret[1]["exchange"] = "gateio"

\* The events of one complete run.
ExpectedEvents ==
    << <<"GET", "https://api.binance.com/api/v3/time">>,
       <<"store", "binance">>, <<"pause", 1>>,
       <<"GET", "https://api.bybit.com/v5/market/time">>,
       <<"store", "bybit">>, <<"pause", 1>>,
       <<"GET", "https://api.gateio.ws/api/v4/spot/time">>,
       <<"store", "gateio">>, <<"pause", 1>> >>

IsPrefix(s, t) == Len(s) <= Len(t) /\ s = SubSeq(t, 1, Len(s))

\* C4: a run is, whatever each probe's outcome, exactly GET binance, store,
\* 1 s pause, GET bybit, store, pause, GET gateio, store, pause: at every
\* moment the events so far are a prefix of that sequence (no retry, no
\* probe before the previous pause ended), and a run that reaches its end
\* has produced all of it (a failure stops nothing).
C4_FixedEventSequence ==
    /\ IsPrefix(events, ExpectedEvents)
    /\ pc = "run_return" => events = ExpectedEvents

\* A run in which all three probes failed has reached its end.
C4_Witness ==
    /\ pc = "run_return"
    /\ Len(results) = 3
    /\ \A i \in 1..3 : ~results[i][2]["success"]
    /\ results[1][2]["status_code"] = [type |-> "NoneType"]

\* C5: an interrupt during main's run is a clean early end: from the moment
\* it is raised no further event of a run happens, main's handler logs it
\* and main returns normally (no traceback, nothing propagated), and the
\* set a run is filling never holds an entry for an exchange whose probe
\* has not returned.
C5_InterruptIsCleanStop ==
    /\ [](pc \in RunPcs =>
            \A j \in 1..3 :
               DictHas(results, FixedOrder[j]) =>
                  (j < idx \/ (j = idx /\ pc = "sleep")))
    /\ [](driver = "main" => pc # "main_uncaught")
    /\ [](driver = "main" /\ pc = "main_exit" /\ raised = "KeyboardInterrupt"
            => /\ log[Len(log)] = [level |-> "INFO",
                                   msg |-> "Test interrupted by user"]
               /\ stderr = <<>>)
    /\ [][driver = "main" /\ raised' = "KeyboardInterrupt" =>
            events' = events]_vars

\* main has returned after an interrupt that cut the write of the file.
C5_Witness ==
    /\ driver = "main"
    /\ pc = "main_exit"
    /\ raised = "KeyboardInterrupt"
    /\ \E n \in DOMAIN fs : fs[n].st = "partial"

\* C6: with an empty self.results, print_results and save_results_to_file
\* print nothing, touch no file and leave the set empty; unless interrupted
\* they log exactly one WARNING line and return.
C6_EmptyIsNoOp ==
    [][(pc \in {"print_enter", "save_enter"} /\ self_results = <<>>) =>
          /\ stdout' = stdout
          /\ fs' = fs
          /\ self_results' = <<>>
          /\ raised' = "none" =>
                /\ Len(log') = Len(log) + 1
                /\ log'[Len(log')].level = "WARNING"
                /\ SubSeq(log', 1, Len(log)) = log
                /\ pc' = "idle"]_vars

\* save_results_to_file("out.json") has returned on an empty set.
C6_Witness ==
    /\ driver = "client"
    /\ pc = "idle"
    /\ filename = [type |-> "str", val |-> "out.json"]
    /\ self_results = <<>>
    /\ log = << [level |-> "WARNING", msg |-> "No results to save."] >>
    /\ fs = [n \in DOMAIN fs |-> [st |-> "absent"]]

\* C7: the "results" object of a written file has the keys of self.results
\* in the same order, and each entry equals the stored result except that
\* latency is the string "inf" exactly where the stored latency is the
\* sentinel, which is exactly in the failed entries.
C7_SavedEqualsStoredButInf ==
    \A n \in DOMAIN fs :
        fs[n].st = "written" =>
            LET w == fs[n].data.results
            IN /\ Len(w) = Len(self_results)
               /\ Len(w) > 0
               /\ \A i \in 1..Len(w) :
                     LET m == self_results[i][2]
                         e == w[i][2]
                     IN /\ w[i][1] = self_results[i][1]
                        /\ DOMAIN e = DOMAIN m
                        /\ \A k \in DOMAIN m \ {"latency"} : e[k] = m[k]
                        /\ (e["latency"] = [type |-> "str", val |-> "inf"])
                              <=> IsSentinel(m["latency"])
                        /\ IsSentinel(m["latency"]) <=> ~m["success"]
                        /\ ~IsSentinel(m["latency"]) =>
                              e["latency"] = m["latency"]

\* A file was written for binance success, bybit 503, gateio transport
\* failure.
C7_Witness ==
    /\ \E n \in DOMAIN fs : fs[n].st = "written"
    /\ Len(self_results) = 3
    /\ self_results[1][2]["success"]
    /\ self_results[2][2]["status_code"] = [type |-> "int", val |-> 503]
    /\ "error" \in DOMAIN self_results[3][2]

\* The summary print_results prints for a three-entry set.
FullReport(d) ==
    ReportHeader \o Block(d[1][1], d[1][2]) \o Block(d[2][1], d[2][2])
                 \o Block(d[3][1], d[3][2])

\* A step taken inside save_results_to_file: the stored set and stdout are
\* kept, and a step that leaves the method from open or from the write
\* without an interrupt is a normal return after one ERROR log line.
SaveStepKeeps ==
    /\ self_results' = self_results
    /\ stdout' = stdout
    /\ (/\ pc \in {"save_open", "save_dump"}
        /\ pc' \notin SavePcs
        /\ raised' # "KeyboardInterrupt")
          => (/\ raised' = "none"
              /\ pc' \in {"idle", "main_exit"}
              /\ Len(log') = Len(log) + 1
              /\ log'[Len(log')].level = "ERROR")

\* C8: save_results_to_file never lets an I/O failure out and never changes
\* self.results: no OSError is ever pending, a failing open or write ends
\* in one ERROR log line and a normal return, the stored set stays what it
\* was at entry with failed entries still holding the numeric sentinel, and
\* in main the whole report is on stdout before save starts and stays.
C8_SaveKeepsResultsAndReturns ==
    /\ [](raised # "OSError")
    /\ [](pc \in SavePcs => self_results = prev_results)
    /\ [](\A i \in 1..Len(self_results) :
             ~self_results[i][2]["success"] =>
                IsSentinel(self_results[i][2]["latency"]))
    /\ [](driver = "main" /\ pc \in SavePcs =>
             stdout = FullReport(self_results))
    /\ [][(pc \in SavePcs) => SaveStepKeeps]_vars

\* In main a write failed part-way, save returned, main ended normally.
C8_Witness ==
    /\ driver = "main"
    /\ pc = "main_exit"
    /\ raised = "none"
    /\ log[Len(log)].level = "ERROR"
    /\ \E n \in DOMAIN fs : fs[n].st = "partial"
    /\ \E i \in 1..Len(self_results) : ~self_results[i][2]["success"]

\* The block the specification describes for one entry: on failure the
\* marker, the error text when there is an error field, then the status
\* code when there is one and "N/A" when there is none.
DescribedBlock(exchange, result) ==
    << "\n" \o Upper(exchange) \o " Results:" >> \o
    IF result["success"]
    THEN << "  Latency: " \o Format2f(result["latency"]) \o " ms",
            "  Status Code: " \o PyFormat(result["status_code"]) >>
    ELSE << "  Request failed" >> \o
         (IF "error" \in DOMAIN result
          THEN << "  Error: " \o result["error"] >> ELSE << >>) \o
         << "  Status Code: " \o
            (IF "status_code" \in DOMAIN result
                /\ result["status_code"].type = "int"
             THEN PyFormat(result["status_code"]) ELSE "N/A") >>

\* C9: print_results prints one block per entry in iteration order; a
\* failed entry's block ends with the status code, or with "N/A" when the
\* status code is absent, as for every transport failure.
C9_FailedBlockShowsNA ==
    (pc = "print_loop" /\ idx > Len(self_results)) =>
        stdout = ReportHeader
                   \o DescribedBlock(self_results[1][1], self_results[1][2])
                   \o DescribedBlock(self_results[2][1], self_results[2][2])
                   \o DescribedBlock(self_results[3][1], self_results[3][2])

StoreCount == Cardinality({i \in 1..Len(events) : events[i][1] = "store"})

\* C10: self.results changes only by the assignment that follows a loop
\* over all three exchanges, and then to that run's set; a run ended by an
\* exception after fewer than three stored probes leaves the stored set as
\* it was at entry and returns nothing, and main then has printed nothing
\* and written no file; so the stored set is empty or has all three keys.
C10_AllOrNothing ==
    /\ [](self_results = <<>> \/ DictKeys(self_results) = FixedOrder)
    /\ [](raised # "none" /\ StoreCount < 3 =>
             /\ self_results = prev_results
             /\ returned = <<>>)
    /\ [](driver = "main" /\ raised # "none" /\ StoreCount < 3 =>
             /\ self_results = <<>>
             /\ stdout = <<>>
             /\ fs = [n \in DOMAIN fs |-> [st |-> "absent"]])
    /\ [][self_results' # self_results =>
            /\ pc = "run_loop"
            /\ idx > 3
            /\ Len(results) = 3
            /\ self_results' = results]_vars

\* A second run was interrupted after two probes were stored; the first
\* run's set is still the stored one.
C10_Witness ==
    /\ driver = "client"
    /\ raised = "KeyboardInterrupt"
    /\ StoreCount = 2
    /\ Len(prev_results) = 3
    /\ self_results = prev_results
====
